---------------------------- MODULE Spec2Model ----------------------------
(***************************************************************************)
(* Arduboy board of simavr: the persistence (luma decay) filter of         *)
(* ssd1306_gl.c and the run loop, cycle timers, wall-clock synchronizer    *)
(* and button bridge of sim_arduboy.c, in both builds (USE_THREADS 0/1).   *)
(***************************************************************************)
EXTENDS Integers, Sequences, FiniteSets, TLC

(***************************************************************************)
(* Bounds of the model.                                                    *)
(***************************************************************************)
\* Panel geometry.  The board has 128 columns and 8 pages (sim_arduboy.c:383);
\* the filter's loops are modelled on a panel of this many columns and pages.
SSD1306_VIRT_COLUMNS == 2
SSD1306_VIRT_PAGES == 1
\* Luma, decay and increment samples: 0..LumaEdge, 255-LumaEdge..255, and the
\* shipped and middle values.
LumaEdge == 1
\* update_lumamap calls in a behaviour of SpecLuma.
MaxUpdates == 2
\* update_lumamap calls in a behaviour of SpecPersist, the calls of it whose
\* bitmaps and buffers are recorded, and the calls after which the bitmap may
\* still be cleared.
MaxApplications == 256
MaxHist == 6
MaxHold == 3
\* Spec explores three profiles of behaviours: "timing", with up to MaxRuns
\* avr->run calls and MinNotify edge events of notify_button_event; "input",
\* with up to MinRuns avr->run calls and MaxNotify edge events; and "redraw",
\* with up to MinRuns avr->run calls, MinNotify edge events and MaxTimerFires
\* firings of the GLUT redraw timer.
MaxTimerFires == 2
MaxRuns == 4
MinRuns == 1
MaxNotify == 5
MinNotify == 0
\* Datagrams the socketpair queues before send() has to wait (set by the
\* operating system, not by the program).
ChanCap == 4
\* Scheduling granularity: the most usleep() oversleeps, in ns.
EpsNs == 50000

(***************************************************************************)
(* Program constants.                                                      *)
(***************************************************************************)
MHZ_16 == 16000000
SSD1306_FRAME_PERIOD_US == 7572
GL_FRAME_PERIOD_US == SSD1306_FRAME_PERIOD_US * 12
LUMA_INC == (256 * 2) \div 3
LUMA_DECAY == 256 \div 3
\* enum button_e
BTN_UP == 0
BTN_DOWN == 1
BTN_LEFT == 2
BTN_RIGHT == 3
BTN_A == 4
BTN_B == 5
BTN_COUNT == 6

VARIABLES
    luma_pixmap,    \* ssd1306_gl.c:32, the persistence buffer
    vram,           \* ssd1306->vram[p][c], the source bitmap
    luma_decay,     \* the decay argument of the update_lumamap calls
    luma_inc,       \* the increment argument of the update_lumamap calls
    prev_pixmap,    \* history: luma_pixmap before the last update_lumamap
    prev_vram,      \* history: vram at the last update_lumamap
    n_updates,      \* history: update_lumamap calls so far
    hist,           \* history: the first MaxHist update_lumamap calls of SpecPersist
    use_threads,    \* the build: USE_THREADS
    profile,        \* which behaviours are explored: "timing", "input" or "redraw"
    pc_sim,         \* where the context that runs the simulation is
    pc_in,          \* where the GLUT thread is in notify_button_event (USE_THREADS 1)
    avr_state,      \* avr->state
    cycle,          \* avr->cycle
    when,           \* the cycle timers: callback -> deadline, NoTimer if not registered
    yield,          \* app_s.yield
    now,            \* CLOCK_MONOTONIC_RAW, in ns
    start_time_ns,  \* app_s.start_time_ns
    pressed,        \* buttons[b].pressed
    irq_level,      \* the value last raised on buttons[b].irq
    chan,           \* the datagrams queued in app_s.socketpair
    pending,        \* the event of a send() that waits for room
    raised,         \* history: the avr_raise_irq calls since main's set-up
    last_call,      \* history: the last notify_button_event call
    glut_timer_ms,  \* the delay the GLUT timer of timerCB is armed with, NoTimer if none
    timer_fires,    \* history: timerCB calls so far
    runs,           \* history: avr->run calls so far
    start_sets,     \* history: assignments to app_s.start_time_ns
    sleep_called,   \* history: avr_callback_sleep_sync has been called
    sl,             \* history: the avr_callback_sleep_sync call of this avr->run
    fired_at,       \* history: callback -> cycle of its last firing, NoTimer if none
    fired_when,     \* history: callback -> the deadline its last firing was due at
    drain           \* history: the drain pass of this loop iteration

lumaVars == <<luma_pixmap, vram, luma_decay, luma_inc, prev_pixmap, prev_vram, n_updates, hist>>
simVars == <<use_threads, profile, pc_sim, avr_state, cycle, when, yield, now, start_time_ns,
             runs, start_sets, sleep_called, sl, fired_at, fired_when, drain>>
inVars == <<pc_in, pressed, irq_level, chan, pending, raised, last_call, glut_timer_ms,
            timer_fires>>
vars == <<lumaVars, simVars, inVars>>

(***************************************************************************)
(* ssd1306_gl.c: the persistence filter.                                   *)
(***************************************************************************)
Pages == 0 .. SSD1306_VIRT_PAGES - 1
Columns == 0 .. SSD1306_VIRT_COLUMNS - 1
PixIdx == 0 .. SSD1306_VIRT_COLUMNS * SSD1306_VIRT_PAGES * 8 - 1
Byte == 0 .. 255

\* Conversion of an int to int16_t (two's complement, 16 bits).
ToInt16(x) == ((x + 32768) % 65536) - 32768

\* A narrower intermediate: the conversion to int8_t.
ToInt8(x) == ((x + 128) % 256) - 128

\* The body of the innermost loop for one buffer entry: lines 41-52.
\* l is the entry, px_col the remaining bits of the vram byte.
LumaPixelNarrow(l, px_col, d, i) ==
    LET luma0 == ToInt8(l)
        luma1 == ToInt8(luma0 - d)
        luma2 == IF px_col % 2 = 1 THEN ToInt8(luma1 + i) ELSE luma1
    IN  IF luma2 < 0 THEN 0 ELSE IF luma2 > 255 THEN 255 ELSE luma2 % 256

\* No upper clamp: a value above 255 is stored modulo 256.
LumaPixelNoCeiling(l, px_col, d, i) ==
    LET luma0 == ToInt16(l)
        luma1 == ToInt16(luma0 - d)
        luma2 == IF px_col % 2 = 1 THEN ToInt16(luma1 + i) ELSE luma1
    IN  IF luma2 < 0 THEN 0 ELSE luma2 % 256

\* The decay is applied to entries whose bit is clear only.
LumaPixelLitNoDecay(l, px_col, d, i) ==
    LET luma0 == ToInt16(l)
        luma2 == IF px_col % 2 = 1 THEN ToInt16(luma0 + i) ELSE ToInt16(luma0 - d)
        luma3 == IF luma2 < 0 THEN 0 ELSE IF luma2 > 255 THEN 255 ELSE luma2
    IN  luma3 % 256

\* No clamp: the int16_t is stored as it is, modulo 256.
LumaPixelWrap(l, px_col, d, i) ==
    LET luma0 == ToInt16(l)
        luma1 == ToInt16(luma0 - d)
        luma2 == IF px_col % 2 = 1 THEN ToInt16(luma1 + i) ELSE luma1
    IN  luma2 % 256

LumaPixel(l, px_col, d, i) ==
    LET luma0 == ToInt16(l)
        luma1 == ToInt16(luma0 - d)
        luma2 == IF px_col % 2 = 1 THEN ToInt16(luma1 + i) ELSE luma1
        luma3 == IF luma2 < 0 THEN 0 ELSE IF luma2 > 255 THEN 255 ELSE luma2
    IN  luma3 % 256

\* for (px_idx = 0; px_idx < 8*COLUMNS; px_idx += COLUMNS): lines 40-54.
RECURSIVE PixelLoop(_, _, _, _, _, _)
PixelLoop(pix, column_ptr, px_col, px_idx, d, i) ==
    IF px_idx < 8 * SSD1306_VIRT_COLUMNS
    THEN PixelLoop([pix EXCEPT ![column_ptr + px_idx] = LumaPixel(@, px_col, d, i)],
                   column_ptr, px_col \div 2, px_idx + SSD1306_VIRT_COLUMNS, d, i)
    ELSE pix

\* The column loop without column_ptr++.
RECURSIVE ColumnLoopFixedPtr(_, _, _, _, _, _, _)
ColumnLoopFixedPtr(pix, column_ptr, vr, p, c, d, i) ==
    IF c < SSD1306_VIRT_COLUMNS
    THEN ColumnLoopFixedPtr(PixelLoop(pix, column_ptr, vr[p][c], 0, d, i),
                            column_ptr, vr, p, c + 1, d, i)
    ELSE pix

\* for (c = 0; c < COLUMNS; c++) { ...; column_ptr++; }: lines 38-56.
RECURSIVE ColumnLoop(_, _, _, _, _, _, _)
ColumnLoop(pix, column_ptr, vr, p, c, d, i) ==
    IF c < SSD1306_VIRT_COLUMNS
    THEN ColumnLoop(PixelLoop(pix, column_ptr, vr[p][c], 0, d, i),
                    column_ptr + 1, vr, p, c + 1, d, i)
    ELSE pix

\* for (p = 0; p < PAGES; p++) { ...; column_ptr += COLUMNS*7; }: lines 37-58.
\* After the column loop column_ptr has advanced by COLUMNS.
RECURSIVE PageLoop(_, _, _, _, _, _)
PageLoop(pix, column_ptr, vr, p, d, i) ==
    IF p < SSD1306_VIRT_PAGES
    THEN PageLoop(ColumnLoop(pix, column_ptr, vr, p, 0, d, i),
                  column_ptr + SSD1306_VIRT_COLUMNS + SSD1306_VIRT_COLUMNS * 7,
                  vr, p + 1, d, i)
    ELSE pix

\* void update_lumamap(ssd1306, luma_decay, luma_inc): the new luma_pixmap.
update_lumamap(pix, vr, d, i) == PageLoop(pix, 0, vr, 0, d, i)

\* void ssd1306_gl_init(pix_size): memset(luma_pixmap, 0, sizeof(*luma_pixmap))
\* clears sizeof(uint8_t) = 1 byte, the first entry.
ssd1306_gl_init(pix) == [idx \in DOMAIN pix |-> IF idx < 1 THEN 0 ELSE pix[idx]]

(***************************************************************************)
(* sim_arduboy.c: the board.                                               *)
(***************************************************************************)
Buttons == 0 .. BTN_COUNT - 1
\* The keys the host presses and releases in the model: 'z', and in the
\* cooperative build the up arrow as well.
KeysUsed == IF use_threads THEN {BTN_A} ELSE {BTN_A, BTN_UP}
Callbacks == {"update_luma", "schedule_render"}
Terminal == {"cpu_Done", "cpu_Crashed"}
NoTimer == 0 - 1
NoEvent == [btn_id |-> 0 - 1, irq |-> 0 - 1, pressed |-> FALSE]
NoSleep == [valid |-> FALSE, at |-> 0, howLong |-> 0, deadline_ns |-> 0, runtime_ns |-> 0,
            sleep_us |-> 0 - 1, elapsed_before |-> 0, ref_sets |-> 0]
NoDrain == [queued |-> 0 - 1, base |-> 0, done |-> FALSE, delivered |-> 0, waiting |-> FALSE]
NoCall == [btn_id |-> 0 - 1, pressed |-> FALSE, edge |-> FALSE]
\* CLOCK_MONOTONIC_RAW when the program starts: the host has been up 0.2 s.
BootNs == 200 * 1000000 + 500

MinOf(S) == CHOOSE x \in S : \A y \in S : x <= y

\* floor(a * b / c) of 64-bit operands, split so that no product leaves the
\* range of the checker's integers.
MulDiv(a, b, c) ==
    (a \div c) * b + (a % c) * (b \div c) + ((a % c) * (b % c)) \div c

\* sim_time.h: avr->frequency * usec / 1000000, avr->frequency = MHZ_16 (line 379).
avr_usec_to_cycles(usec) == MulDiv(MHZ_16, usec, 1000000)

\* sim_time.h: 1E6 * cycles / (avr->frequency / 1000).
avr_cycles_to_nsec(cycles) == MulDiv(cycles, 1000000, MHZ_16 \div 1000)

LumaPeriod == avr_usec_to_cycles(SSD1306_FRAME_PERIOD_US)
RenderPeriod == avr_usec_to_cycles(GL_FRAME_PERIOD_US)
\* avr->run_cycle_limit, line 381.
run_cycle_limit == avr_usec_to_cycles(2 * GL_FRAME_PERIOD_US)

\* The deadline a callback would return if it rebased on its previous deadline.
update_luma_rebased(avr_cycle, at) == at + avr_usec_to_cycles(SSD1306_FRAME_PERIOD_US)
schedule_render_rebased(avr_cycle, at) == at + avr_usec_to_cycles(GL_FRAME_PERIOD_US)

\* update_luma's return value, line 112; avr_cycle is avr->cycle, at is `when`.
update_luma(avr_cycle, at) == avr_cycle + avr_usec_to_cycles(SSD1306_FRAME_PERIOD_US)

\* schedule_render's return value, line 293.
schedule_render(avr_cycle, at) == avr_cycle + avr_usec_to_cycles(GL_FRAME_PERIOD_US)

\* avr_callback_sleep_sync, line 128.
SleepDeadlineNs(avr_cycle, howLong) == avr_cycles_to_nsec(avr_cycle + howLong)

\* avr_callback_sleep_sync, line 130 (uint64_t; the clock never runs behind
\* a value it gave before, and start_time_ns is 0 or such a value).
SleepRuntimeNs(t, start) == t - start

\* A sleep rounded up to the next microsecond.
SleepUsCeil(deadline_ns, runtime_ns) ==
    IF runtime_ns >= deadline_ns THEN 0 - 1 ELSE (deadline_ns - runtime_ns + 999) \div 1000

\* avr_callback_sleep_sync, lines 131-136: the argument of usleep, or -1 when
\* the function returns without sleeping.
SleepUs(deadline_ns, runtime_ns) ==
    IF runtime_ns >= deadline_ns THEN 0 - 1 ELSE (deadline_ns - runtime_ns) \div 1000

\* notify_button_event with no edge detection.
NotifyAlways(b, p) == TRUE

\* notify_button_event, line 210: btn->pressed != pressed (btn is not NULL).
NotifyEdge(b, p) == pressed[b] # p

\* struct btn_event e = {btn->btn_id, btn->irq, pressed}, line 211.
BtnEvent(b, p) == [btn_id |-> b, irq |-> b, pressed |-> p]

\* An active-high line: e.pressed.
RaiseLevelActiveHigh(e) == IF e.pressed THEN 1 ELSE 0

\* !e.pressed, lines 156 and 215.
RaiseLevel(e) == IF e.pressed THEN 0 ELSE 1

\* Events notify_button_event has emitted: raised, queued, or in a waiting send.
Emitted == Len(raised) + Len(chan) + (IF pc_in = "blocked" THEN 1 ELSE 0)

\* Where avr_run_loop's caller continues: the GLUT main loop, or the end of
\* avr_run_thread.
ReturnPc == IF use_threads THEN "exited" ELSE "host"

\* A loop that does not test app_s.yield.
LoopBackAlways(y) == "run"

\* while (!app_s.yield), line 144, at the end of an iteration.
LoopBack(y) == IF y THEN ReturnPc ELSE "run"

\* The profile's bounds.
RunBudget == IF profile = "timing" THEN MaxRuns ELSE MinRuns
EventBudget == IF profile = "input" THEN MaxNotify ELSE MinNotify
TimerBudget == IF profile = "redraw" THEN MaxTimerFires ELSE 0

\* The first argument of glutTimerFunc, in ms, lines 280 and 421 (int division).
TimerDelayMs == 1000 \div GL_FRAME_PERIOD_US

Registered == {cb \in Callbacks : when[cb] # NoTimer}

\* The idle period the core asks for: the cycles to the next timer, at most
\* run_cycle_limit.
HowLong == MinOf({when[cb] - cycle : cb \in Registered} \cup {run_cycle_limit})

\* Cycles one avr->run call advances a running core by, and the wall-clock
\* time that takes: a quarter of the simulated time, or twice as long.
CycleSteps == {LumaPeriod \div 2, RenderPeriod}
WallCosts(delta) == {avr_cycles_to_nsec(delta) \div 4, avr_cycles_to_nsec(delta) * 2}

(***************************************************************************)
(* The state when main enters glutMainLoop.                                *)
(***************************************************************************)
InitBoard ==
    /\ use_threads \in BOOLEAN
    /\ profile \in {"timing", "input", "redraw"}
    /\ pc_sim = IF use_threads THEN "thread_start" ELSE "host"
    /\ pc_in = "idle"
    /\ avr_state = "cpu_Running"
    /\ cycle = 0
    \* lines 407 and 427: schedule_render is registered in the cooperative build only
    /\ when = [cb \in Callbacks |->
                 IF cb = "update_luma" THEN LumaPeriod
                 ELSE IF use_threads THEN NoTimer ELSE RenderPeriod]
    /\ yield = FALSE
    /\ now = BootNs
    /\ start_time_ns = 0
    /\ pressed = [b \in Buttons |-> FALSE]
    /\ irq_level = [b \in Buttons |-> 1]
    /\ chan = <<>>
    /\ pending = NoEvent
    /\ raised = <<>>
    /\ last_call = NoCall
    \* line 421: the redraw timer is armed in the threaded build only
    /\ glut_timer_ms = IF use_threads THEN TimerDelayMs ELSE NoTimer
    /\ timer_fires = 0
    /\ runs = 0
    /\ start_sets = 0
    /\ sleep_called = FALSE
    /\ sl = NoSleep
    /\ fired_at = [cb \in Callbacks |-> NoTimer]
    /\ fired_when = [cb \in Callbacks |-> NoTimer]
    /\ drain = NoDrain

Init ==
    /\ InitBoard
    /\ luma_pixmap = [idx \in PixIdx |-> 0]
    /\ vram = [p \in Pages |-> [c \in Columns |-> 0]]
    /\ luma_decay = LUMA_DECAY
    /\ luma_inc = LUMA_INC
    /\ prev_pixmap = luma_pixmap
    /\ prev_vram = vram
    /\ n_updates = 0
    /\ hist = <<>>

(***************************************************************************)
(* The context that runs the simulation.                                   *)
(***************************************************************************)
\* avr_run_thread, lines 164-172: take the start time, enter avr_run_loop.
AvrRunThread ==
    /\ use_threads /\ pc_sim = "thread_start"
    /\ start_time_ns' = now
    /\ start_sets' = start_sets + 1
    /\ yield' = FALSE
    /\ pc_sim' = "run"
    /\ UNCHANGED <<lumaVars, inVars, use_threads, profile, avr_state, cycle, when, now, runs,
                   sleep_called, sl, fired_at, fired_when, drain>>

\* GLUT calls the idle function avr_run_loop, lines 140-144.
RunLoopEnter ==
    /\ ~use_threads /\ pc_sim = "host"
    /\ yield' = FALSE
    /\ pc_sim' = "run"
    /\ UNCHANGED <<lumaVars, inVars, use_threads, profile, avr_state, cycle, when, now,
                   start_time_ns, runs, start_sets, sleep_called, sl, fired_at, fired_when, drain>>

\* avr->run(avr), line 145: the core executes, then processes its timers.
AvrStep ==
    /\ pc_sim = "run" /\ runs < RunBudget
    /\ runs' = runs + 1
    /\ pc_sim' = "timers"
    /\ sl' = NoSleep
    /\ drain' = NoDrain
    /\ \/ /\ avr_state = "cpu_Running"
          /\ \E delta \in CycleSteps : \E cost \in WallCosts(delta) :
                /\ cycle' = cycle + delta
                /\ now' = now + cost
          /\ avr_state' \in {"cpu_Running", "cpu_Sleeping", "cpu_Done", "cpu_Crashed"}
       \/ /\ avr_state = "cpu_Sleeping"
          /\ avr_state' \in {"cpu_Running", "cpu_Sleeping"}
          /\ UNCHANGED <<cycle, now>>
       \/ /\ avr_state \in Terminal
          /\ UNCHANGED <<avr_state, cycle, now>>
    /\ UNCHANGED <<lumaVars, inVars, use_threads, profile, when, yield, start_time_ns, start_sets,
                   sleep_called, fired_at, fired_when>>

\* The core fires update_luma (lines 106-113) when its deadline is reached.
FireUpdateLuma ==
    /\ pc_sim = "timers"
    /\ when["update_luma"] # NoTimer /\ when["update_luma"] <= cycle
    /\ luma_pixmap' = update_lumamap(luma_pixmap, vram, LUMA_DECAY, LUMA_INC)
    /\ luma_decay' = LUMA_DECAY /\ luma_inc' = LUMA_INC
    /\ prev_pixmap' = luma_pixmap /\ prev_vram' = vram
    /\ when' = [when EXCEPT !["update_luma"] = update_luma(cycle, @)]
    /\ fired_at' = [fired_at EXCEPT !["update_luma"] = cycle]
    /\ fired_when' = [fired_when EXCEPT !["update_luma"] = when["update_luma"]]
    /\ UNCHANGED <<vram, n_updates, hist, inVars, use_threads, profile, pc_sim, avr_state, cycle, yield,
                   now, start_time_ns, runs, start_sets, sleep_called, sl, drain>>

\* The core fires schedule_render (lines 286-294) when its deadline is reached.
FireScheduleRender ==
    /\ pc_sim = "timers"
    /\ when["schedule_render"] # NoTimer /\ when["schedule_render"] <= cycle
    /\ yield' = TRUE
    /\ when' = [when EXCEPT !["schedule_render"] = schedule_render(cycle, @)]
    /\ fired_at' = [fired_at EXCEPT !["schedule_render"] = cycle]
    /\ fired_when' = [fired_when EXCEPT !["schedule_render"] = when["schedule_render"]]
    /\ UNCHANGED <<lumaVars, inVars, use_threads, profile, pc_sim, avr_state, cycle, now,
                   start_time_ns, runs, start_sets, sleep_called, sl, drain>>

\* No timer is due: a sleeping core calls avr->sleep, any other returns.
TimersDone ==
    /\ pc_sim = "timers"
    /\ \A cb \in Registered : when[cb] > cycle
    /\ pc_sim' = IF avr_state = "cpu_Sleeping" THEN "sleep" ELSE "check"
    /\ UNCHANGED <<lumaVars, inVars, use_threads, profile, avr_state, cycle, when, yield, now,
                   start_time_ns, runs, start_sets, sleep_called, sl, fired_at, fired_when, drain>>

\* avr_callback_sleep_sync(avr, howLong), lines 121-138.  usleep returns after
\* the time asked for, up to EpsNs late.
SleepSync ==
    /\ pc_sim = "sleep"
    /\ LET deadline_ns == SleepDeadlineNs(cycle, HowLong)
           runtime_ns == SleepRuntimeNs(now, start_time_ns)
           sleep_us == SleepUs(deadline_ns, runtime_ns)
       IN  /\ sl' = [valid |-> TRUE, at |-> cycle, howLong |-> HowLong,
                     deadline_ns |-> deadline_ns, runtime_ns |-> runtime_ns,
                     sleep_us |-> sleep_us, elapsed_before |-> now - BootNs,
                     ref_sets |-> start_sets]
           /\ IF sleep_us < 0
              THEN now' = now
              ELSE \E over \in {0, EpsNs} : now' = now + sleep_us * 1000 + over
    /\ sleep_called' = TRUE
    /\ pc_sim' = "slept"
    /\ UNCHANGED <<lumaVars, inVars, use_threads, profile, avr_state, cycle, when, yield,
                   start_time_ns, runs, start_sets, fired_at, fired_when, drain>>

\* Back in the core: the idle period is added to avr->cycle.
CoreAfterSleep ==
    /\ pc_sim = "slept"
    /\ cycle' = cycle + 1 + sl.howLong
    /\ pc_sim' = "check"
    /\ UNCHANGED <<lumaVars, inVars, use_threads, profile, avr_state, when, yield, now,
                   start_time_ns, runs, start_sets, sleep_called, sl, fired_at, fired_when, drain>>

\* Lines 146-148, and the way to the drain loop or to the loop test.
CheckState ==
    /\ pc_sim = "check"
    /\ IF avr_state \in Terminal
       THEN pc_sim' = ReturnPc /\ drain' = drain
       ELSE IF use_threads
            THEN /\ pc_sim' = "drain"
                 /\ drain' = [queued |-> Len(chan) + (IF pc_in = "blocked" THEN 1 ELSE 0),
                              base |-> Len(raised), done |-> FALSE, delivered |-> 0,
                              waiting |-> FALSE]
            ELSE pc_sim' = LoopBack(yield) /\ drain' = drain
    /\ UNCHANGED <<lumaVars, inVars, use_threads, profile, avr_state, cycle, when, yield, now,
                   start_time_ns, runs, start_sets, sleep_called, sl, fired_at, fired_when>>

\* A drain that takes one datagram and leaves the loop.
DrainRecvOnce ==
    /\ pc_sim = "drain" /\ chan # <<>>
    /\ LET e == Head(chan)
       IN  /\ irq_level' = [irq_level EXCEPT ![e.irq] = RaiseLevel(e)]
           /\ raised' = Append(raised, <<e.irq, RaiseLevel(e)>>)
    /\ chan' = Tail(chan)
    /\ pc_sim' = LoopBack(yield)
    /\ drain' = [drain EXCEPT !.done = TRUE, !.delivered = Len(raised') - drain.base,
                                !.waiting = (pc_in = "blocked")]
    /\ UNCHANGED <<lumaVars, pc_in, pressed, pending, last_call, glut_timer_ms, timer_fires,
                   use_threads, profile, avr_state, cycle, when, yield, now, start_time_ns, runs, start_sets,
                   sleep_called, sl, fired_at, fired_when>>

\* Lines 152-158: recv takes a datagram and the event is raised.
DrainRecv ==
    /\ pc_sim = "drain" /\ chan # <<>>
    /\ LET e == Head(chan)
       IN  /\ irq_level' = [irq_level EXCEPT ![e.irq] = RaiseLevel(e)]
           /\ raised' = Append(raised, <<e.irq, RaiseLevel(e)>>)
    /\ chan' = Tail(chan)
    /\ UNCHANGED <<lumaVars, simVars, pc_in, pressed, pending, last_call, glut_timer_ms,
                   timer_fires>>

\* Lines 152-158: recv finds the queue empty (r_sz = -1) and the loop ends.
DrainEnd ==
    /\ pc_sim = "drain" /\ chan = <<>>
    /\ pc_sim' = LoopBack(yield)
    /\ drain' = [drain EXCEPT !.done = TRUE, !.delivered = Len(raised) - drain.base,
                                !.waiting = (pc_in = "blocked")]
    /\ UNCHANGED <<lumaVars, inVars, use_threads, profile, avr_state, cycle, when, yield, now,
                   start_time_ns, runs, start_sets, sleep_called, sl, fired_at, fired_when>>

(***************************************************************************)
(* The GLUT context: key callbacks.                                        *)
(***************************************************************************)
\* notify_button_event calling avr_raise_irq itself in both builds.
NotifyDirect(b, p) ==
    /\ IF use_threads THEN pc_in = "idle" ELSE pc_sim = "host"
    /\ last_call' = [btn_id |-> b, pressed |-> p, edge |-> (pressed[b] # p)]
    /\ IF NotifyEdge(b, p)
       THEN /\ Emitted < EventBudget
            /\ irq_level' = [irq_level EXCEPT ![BtnEvent(b, p).irq] = RaiseLevel(BtnEvent(b, p))]
            /\ raised' = Append(raised, <<BtnEvent(b, p).irq, RaiseLevel(BtnEvent(b, p))>>)
            /\ pressed' = [pressed EXCEPT ![b] = p]
            /\ UNCHANGED <<pc_in, pending, chan>>
       ELSE UNCHANGED <<pc_in, pressed, irq_level, chan, pending, raised>>
    /\ UNCHANGED <<lumaVars, simVars, glut_timer_ms, timer_fires>>

\* notify_button_event(&buttons[b], p), lines 208-219.  In the cooperative
\* build GLUT calls it between two calls of the idle function; in the threaded
\* build the GLUT thread calls it at any time.
Notify(b, p) ==
    /\ IF use_threads THEN pc_in = "idle" ELSE pc_sim = "host"
    /\ last_call' = [btn_id |-> b, pressed |-> p, edge |-> (pressed[b] # p)]
    /\ IF NotifyEdge(b, p)
       THEN /\ Emitted < EventBudget
            /\ IF use_threads
               THEN IF Len(chan) < ChanCap
                    THEN /\ chan' = Append(chan, BtnEvent(b, p))
                         /\ pressed' = [pressed EXCEPT ![b] = p]
                         /\ UNCHANGED <<pc_in, pending, irq_level, raised>>
                    ELSE /\ pc_in' = "blocked"
                         /\ pending' = BtnEvent(b, p)
                         /\ UNCHANGED <<chan, pressed, irq_level, raised>>
               ELSE /\ irq_level' = [irq_level EXCEPT ![BtnEvent(b, p).irq] =
                                         RaiseLevel(BtnEvent(b, p))]
                    /\ raised' = Append(raised, <<BtnEvent(b, p).irq,
                                                  RaiseLevel(BtnEvent(b, p))>>)
                    /\ pressed' = [pressed EXCEPT ![b] = p]
                    /\ UNCHANGED <<pc_in, pending, chan>>
       ELSE UNCHANGED <<pc_in, pressed, irq_level, chan, pending, raised>>
    /\ UNCHANGED <<lumaVars, simVars, glut_timer_ms, timer_fires>>

NotifyButtonEvent == \E b \in KeysUsed, p \in BOOLEAN : Notify(b, p)

\* send(), line 213, on the blocking end of the socketpair: it returns once
\* the queue has room; then line 217.
SendUnblock ==
    /\ pc_in = "blocked" /\ Len(chan) < ChanCap
    /\ chan' = Append(chan, pending)
    /\ pressed' = [pressed EXCEPT ![pending.btn_id] = pending.pressed]
    /\ pending' = NoEvent
    /\ pc_in' = "idle"
    /\ UNCHANGED <<lumaVars, simVars, irq_level, raised, last_call, glut_timer_ms,
                   timer_fires>>

\* timerCB, lines 277-282: the GLUT thread re-arms the timer and posts a
\* redisplay.
TimerCB ==
    /\ use_threads /\ glut_timer_ms # NoTimer
    /\ pc_in = "idle"
    /\ timer_fires < TimerBudget
    /\ glut_timer_ms' = TimerDelayMs
    /\ timer_fires' = timer_fires + 1
    /\ UNCHANGED <<lumaVars, simVars, pc_in, pressed, irq_level, chan, pending, raised,
                   last_call>>

Next ==
    \/ AvrRunThread
    \/ RunLoopEnter
    \/ AvrStep
    \/ FireUpdateLuma
    \/ FireScheduleRender
    \/ TimersDone
    \/ SleepSync
    \/ CoreAfterSleep
    \/ CheckState
    \/ DrainRecv
    \/ DrainEnd
    \/ NotifyButtonEvent
    \/ SendUnblock
    \/ TimerCB

Spec == Init /\ [][Next]_vars

(***************************************************************************)
(* SpecLuma: the filter as a function of its inputs.                       *)
(***************************************************************************)
LumaSamples ==
    (0 .. LumaEdge) \cup (255 - LumaEdge .. 255) \cup {LUMA_DECAY, LUMA_INC, 128}

\* Buffers the filter is started from: every entry the same sample, or entries
\* that differ from one another.
InitBuffers ==
    {[idx \in PixIdx |-> l] : l \in LumaSamples}
        \cup {[idx \in PixIdx |-> (idx * 37 + 11) % 256]}

\* Bitmaps: all off, all on, and bytes with mixed bits that differ per column.
VramPatterns ==
    { [p \in Pages |-> [c \in Columns |-> 0]],
      [p \in Pages |-> [c \in Columns |-> 255]],
      [p \in Pages |-> [c \in Columns |-> (165 + 17 * (p * SSD1306_VIRT_COLUMNS + c)) % 256]] }

InitLuma ==
    /\ luma_pixmap \in InitBuffers
    /\ vram \in VramPatterns
    /\ luma_decay \in LumaSamples
    /\ luma_inc \in LumaSamples
    /\ prev_pixmap = luma_pixmap
    /\ prev_vram = vram
    /\ n_updates = 0
    /\ hist = <<>>
    /\ InitBoard
    /\ ~use_threads /\ profile = "timing"

\* One call update_lumamap(&ssd1306, luma_decay, luma_inc).
UpdateLumamapCall ==
    /\ n_updates < MaxUpdates
    /\ luma_pixmap' = update_lumamap(luma_pixmap, vram, luma_decay, luma_inc)
    /\ prev_pixmap' = luma_pixmap
    /\ prev_vram' = vram
    /\ n_updates' = n_updates + 1
    /\ UNCHANGED <<vram, luma_decay, luma_inc, hist, simVars, inVars>>

\* The firmware rewrites the bitmap between two updates.
VramWrite ==
    /\ \E v \in VramPatterns : v # vram /\ vram' = v
    /\ UNCHANGED <<luma_pixmap, luma_decay, luma_inc, prev_pixmap, prev_vram, n_updates,
                   hist, simVars, inVars>>

\* initGL calls ssd1306_gl_init before the first update.
GlInitCall ==
    /\ n_updates = 0
    /\ luma_pixmap' = ssd1306_gl_init(luma_pixmap)
    /\ luma_pixmap' # luma_pixmap
    /\ prev_pixmap' = luma_pixmap'
    /\ UNCHANGED <<vram, luma_decay, luma_inc, prev_vram, n_updates, hist, simVars, inVars>>

NextLuma == UpdateLumamapCall \/ VramWrite \/ GlInitCall

SpecLuma == InitLuma /\ [][NextLuma]_vars

(***************************************************************************)
(* SpecPersist: the filter applied again and again to a bitmap that is     *)
(* held, and cleared at most once.                                         *)
(***************************************************************************)
\* The pixel of the scenario: row 3 of column 1 (bit 3 of vram[0][1]).
PixelRow == 3
PixelColumn == 1

BlankBitmap == [p \in Pages |-> [c \in Columns |-> 0]]
SinglePixelBitmap ==
    [p \in Pages |-> [c \in Columns |->
        IF p = PixelRow \div 8 /\ c = PixelColumn THEN 2 ^ (PixelRow % 8) ELSE 0]]
MixedBitmap ==
    [p \in Pages |-> [c \in Columns |-> (165 + 17 * (p * SSD1306_VIRT_COLUMNS + c)) % 256]]
PersistBitmaps == {BlankBitmap, SinglePixelBitmap, MixedBitmap}

\* The static buffer as the program starts (all 0), saturated, and with
\* entries that differ from one another.
PersistBuffers ==
    {[idx \in PixIdx |-> 0], [idx \in PixIdx |-> 255], [idx \in PixIdx |-> (idx * 37 + 11) % 256]}

InitPersist ==
    /\ luma_pixmap \in PersistBuffers
    /\ vram \in PersistBitmaps
    /\ luma_decay \in LumaSamples
    /\ luma_inc \in LumaSamples
    /\ prev_pixmap = luma_pixmap
    /\ prev_vram = vram
    /\ n_updates = 0
    /\ hist = <<>>
    /\ InitBoard
    /\ ~use_threads /\ profile = "timing"

\* The last call changed nothing and the bitmap is as it was at that call:
\* every further call repeats it.
Settled == n_updates > 0 /\ luma_pixmap = prev_pixmap /\ vram = prev_vram

\* One more call update_lumamap(&ssd1306, luma_decay, luma_inc).
PersistUpdate ==
    /\ n_updates < MaxApplications
    /\ ~Settled
    /\ luma_pixmap' = update_lumamap(luma_pixmap, vram, luma_decay, luma_inc)
    /\ prev_pixmap' = luma_pixmap
    /\ prev_vram' = vram
    /\ n_updates' = n_updates + 1
    /\ hist' = IF Len(hist) < MaxHist
               THEN Append(hist, [pre |-> luma_pixmap, vr |-> vram, post |-> luma_pixmap'])
               ELSE hist
    /\ UNCHANGED <<vram, luma_decay, luma_inc, simVars, inVars>>

\* The firmware clears the bitmap it has held since the first call.
PersistClear ==
    /\ n_updates \in 1 .. MaxHold
    /\ vram # BlankBitmap
    /\ \A k \in 1 .. Len(hist) : hist[k].vr = vram
    /\ vram' = BlankBitmap
    /\ UNCHANGED <<luma_pixmap, luma_decay, luma_inc, prev_pixmap, prev_vram, n_updates,
                   hist, simVars, inVars>>

NextPersist == PersistUpdate \/ PersistClear

SpecPersist == InitPersist /\ [][NextPersist]_vars

(***************************************************************************)
(* Claims about the filter.                                                *)
(***************************************************************************)
Clamp(x, lo, hi) == IF x < lo THEN lo ELSE IF x > hi THEN hi ELSE x

\* Bit k (0 = least significant) of byte b.
BitOf(b, k) == (b \div (2 ^ k)) % 2

\* The buffer entry of pixel row r, column c.
EntryOf(r, c) == r * SSD1306_VIRT_COLUMNS + c

\* C1: one call of update_lumamap sets the entry of every pixel to
\* clamp(l - d + i, 0, 255) when its source bit is set and to clamp(l - d, 0, 255)
\* when it is clear, l being the entry before the call; with d = 0 and i = 0
\* every entry is left unchanged.
C1_UpdateIsClampedSum ==
    n_updates > 0 =>
        /\ \A p \in Pages, c \in Columns, k \in 0 .. 7 :
              LET e == EntryOf(8 * p + k, c)
                  l == prev_pixmap[e]
              IN  luma_pixmap[e] =
                      IF BitOf(prev_vram[p][c], k) = 1
                      THEN Clamp(l - luma_decay + luma_inc, 0, 255)
                      ELSE Clamp(l - luma_decay, 0, 255)
        /\ (luma_decay = 0 /\ luma_inc = 0) => luma_pixmap = prev_pixmap

\* C1 witness: an update with decay 255 and increment 255 on a bitmap with set
\* and clear bits, from entries that are not all 0, has clamped at both ends.
C1_Witness ==
    /\ n_updates > 0
    /\ luma_decay = 255 /\ luma_inc = 255
    /\ \E e \in PixIdx : prev_pixmap[e] = 255 /\ luma_pixmap[e] = 255
    /\ \E e \in PixIdx : prev_pixmap[e] > 0 /\ luma_pixmap[e] = 0

(***************************************************************************)
(* Claims about the board.                                                 *)
(***************************************************************************)
Period(cb) == IF cb = "update_luma" THEN LumaPeriod ELSE RenderPeriod

\* Callback cb fires in this step.
Fires(cb) == when'[cb] # when[cb] \/ fired_at'[cb] # fired_at[cb]

\* Wall-clock time since the program started the simulation, in ns.
ElapsedNs == now - BootNs

\* C2: a notify_button_event call emits an event if and only if its pressed
\* value differs from the button's stored pressed state: a repeated press emits
\* nothing, the release after it emits exactly one more event.
C2_EventIffEdge ==
    [][\A b \in KeysUsed, p \in BOOLEAN :
          Notify(b, p) => Emitted' = Emitted + (IF pressed[b] # p THEN 1 ELSE 0)]_vars

\* C2 witness: the key was pressed twice in a row and exactly one event, the
\* press, has been emitted.
C2_Witness ==
    /\ last_call = [btn_id |-> BTN_A, pressed |-> TRUE, edge |-> FALSE]
    /\ Emitted = 1
    /\ raised = <<<<BTN_A, 0>>>>

\* C3: app_s.start_time_ns is set exactly once, before the first call of
\* avr_callback_sleep_sync, in the cooperative and in the threaded build.
C3_RefPointSetBeforeSleep ==
    /\ start_sets <= 1
    /\ sleep_called => start_sets = 1

\* C4: in the threaded build notify_button_event never blocks: on a full
\* channel send() returns without waiting.
C4_ProducerNeverBlocks == pc_in # "blocked"

\* C5: with a channel of capacity 4, when 5 events were sent before a drain
\* pass, the pass delivers exactly 4 of them and the fifth is dropped.
C5_FourDeliveredOneDropped ==
    (drain.done /\ ChanCap = 4 /\ drain.queued = 5) =>
        (drain.delivered = 4 /\ ~drain.waiting)

\* C6: once avr->state is cpu_Done or cpu_Crashed, avr->run is never called
\* again.
C6_TerminalNeverRunAgain == [][(avr_state \in Terminal) => (runs' = runs)]_vars

\* C7: the deadline a callback returns is strictly greater than the cycle it
\* was computed at, and not less than the callback's previous deadline.
C7_DeadlineMonotone ==
    [][\A cb \in Callbacks :
          Fires(cb) => (when'[cb] > cycle' /\ when'[cb] >= when[cb])]_vars

\* C7 witness: update_luma has fired late, and not for the first time.
C7_Witness ==
    /\ fired_at["update_luma"] > fired_when["update_luma"]
    /\ fired_when["update_luma"] > LumaPeriod
    /\ when["update_luma"] > cycle

\* C8: a callback that fires late returns the cycle of the firing plus the
\* period, not its previous deadline plus the period, and two successive
\* firings of a callback are at least one period apart.
C8_RebaseOnFiringCycle ==
    [][\A cb \in Callbacks :
          Fires(cb) =>
              /\ when'[cb] = cycle + Period(cb)
              /\ cycle > when[cb] => when'[cb] # when[cb] + Period(cb)
              /\ fired_at[cb] # NoTimer => cycle - fired_at[cb] >= Period(cb)]_vars

\* C8 witness: schedule_render has fired late, after an earlier firing.
C8_Witness ==
    /\ fired_at["schedule_render"] > fired_when["schedule_render"]
    /\ fired_when["schedule_render"] > RenderPeriod
    /\ when["schedule_render"] = fired_at["schedule_render"] + RenderPeriod

\* C9: when avr_callback_sleep_sync is called while simulated time is ahead of
\* the wall-clock time elapsed since the simulation started, the wall-clock
\* time elapsed after the call is within EpsNs of the deadline.
C9_SleepReachesDeadline ==
    (pc_sim = "slept" /\ sl.deadline_ns > sl.elapsed_before) =>
        /\ ElapsedNs - sl.deadline_ns <= EpsNs
        /\ sl.deadline_ns - ElapsedNs <= EpsNs

CeilDiv(a, b) == (a + b - 1) \div b

\* The recorded calls whose bitmap had bit k of vram[p][c] set.
CallsWithBit(p, c, k) == {j \in 1 .. Len(hist) : BitOf(hist[j].vr[p][c], k) = 1}

\* C11: with decay d >= 1, an entry whose source bit has been clear for
\* ceil(255 / d) calls or more is 0, whatever it was when the bit went clear,
\* and is 0 after every later call.
C11_DecayReachesZero ==
    luma_decay >= 1 =>
        \A p \in Pages, c \in Columns, k \in 0 .. 7 :
            (/\ BitOf(vram[p][c], k) = 0
             /\ n_updates - Cardinality(CallsWithBit(p, c, k)) >= CeilDiv(255, luma_decay))
                => luma_pixmap[EntryOf(8 * p + k, c)] = 0

\* C11 witness: with decay 1 an entry that started at 255 with its bit clear
\* has reached 0 at call 255 and not before.
C11_Witness ==
    /\ luma_decay = 1 /\ n_updates = 255
    /\ \E p \in Pages, c \in Columns, k \in 0 .. 7 :
          /\ BitOf(hist[1].vr[p][c], k) = 0
          /\ hist[1].pre[EntryOf(8 * p + k, c)] = 255
          /\ prev_pixmap[EntryOf(8 * p + k, c)] = 1
          /\ luma_pixmap[EntryOf(8 * p + k, c)] = 0

\* C12: an entry that starts at 0 and whose source bit is set at every call
\* converges to a value f with f = clamp(f - d + i, 0, 255) and stays there:
\* it never falls, once a call leaves it as it was every later call does, and
\* after 255 calls it is such an f (255 when i > d, 0 otherwise).
C12_SaturationFixedPoint ==
    \A p \in Pages, c \in Columns, k \in 0 .. 7 :
        LET e == EntryOf(8 * p + k, c)
            f == luma_pixmap[e]
        IN  (/\ n_updates > 0
             /\ hist[1].pre[e] = 0
             /\ BitOf(prev_vram[p][c], k) = 1
             /\ BitOf(vram[p][c], k) = 1)
                => /\ f >= prev_pixmap[e]
                   /\ (prev_pixmap[e] = Clamp(prev_pixmap[e] - luma_decay + luma_inc, 0, 255))
                         => f = prev_pixmap[e]
                   /\ n_updates >= 255 =>
                         /\ f = Clamp(f - luma_decay + luma_inc, 0, 255)
                         /\ f = IF luma_inc > luma_decay THEN 255 ELSE 0

\* C12 witness: with decay 0 and increment 1 an entry that started at 0 with
\* its bit set has reached 255 at call 255 and not before.
C12_Witness ==
    /\ luma_decay = 0 /\ luma_inc = 1 /\ n_updates = 255
    /\ \E p \in Pages, c \in Columns, k \in 0 .. 7 :
          /\ BitOf(vram[p][c], k) = 1
          /\ hist[1].pre[EntryOf(8 * p + k, c)] = 0
          /\ prev_pixmap[EntryOf(8 * p + k, c)] = 254
          /\ luma_pixmap[EntryOf(8 * p + k, c)] = 255

\* The first six recorded calls are three with the single pixel on and three
\* with the bitmap blank, from a buffer of zeros, with the shipped constants.
PixelScenario ==
    /\ luma_decay = LUMA_DECAY /\ luma_inc = LUMA_INC
    /\ Len(hist) >= 6
    /\ \A e \in PixIdx : hist[1].pre[e] = 0
    /\ \A j \in 1 .. 3 : hist[j].vr = SinglePixelBitmap
    /\ \A j \in 4 .. 6 : hist[j].vr = BlankBitmap

\* C13 as stated: with decay 85 and increment 170 on a buffer of zeros, a pixel
\* whose bit is on for three updates and then off takes the values 170, 255,
\* 255, 170, 85, 0, and every other pixel stays at 0.
C13_PixelScenario ==
    PixelScenario =>
        /\ [j \in 1 .. 6 |-> hist[j].post[EntryOf(PixelRow, PixelColumn)]]
              = <<170, 255, 255, 170, 85, 0>>
        /\ \A j \in 1 .. 6 : \A e \in PixIdx \ {EntryOf(PixelRow, PixelColumn)} :
              hist[j].post[e] = 0

\* C13 amended: decay and increment are both applied before the clamp, so a
\* lit pixel gains 170 - 85 = 85 per update: the pixel takes the values 85,
\* 170, 255 while its bit is on and 170, 85, 0 once it is off, and every other
\* pixel stays at 0.
C13_PixelGainsNetIncrement ==
    PixelScenario =>
        /\ \A j \in 1 .. 6 :
              hist[j].post[EntryOf(PixelRow, PixelColumn)] = <<85, 170, 255, 170, 85, 0>>[j]
        /\ \A j \in 1 .. 6 : \A e \in PixIdx \ {EntryOf(PixelRow, PixelColumn)} :
              hist[j].post[e] = 0

\* C13 witness: the six updates of the scenario have been made; the pixel was
\* at 255 after the third and is back at 0.
C13_Witness ==
    /\ PixelScenario
    /\ n_updates = 6
    /\ hist[3].post[EntryOf(PixelRow, PixelColumn)] = 255
    /\ luma_pixmap = [e \in PixIdx |-> 0]
    /\ prev_pixmap[EntryOf(PixelRow, PixelColumn)] = 85

(***************************************************************************)
(* Claims about the filter's loops and its initialisation.                 *)
(***************************************************************************)
\* C15: every entry of luma_pixmap is 0 after ssd1306_gl_init, whatever the
\* buffer held before the call.
C15_InitClearsBuffer == [][GlInitCall => \A e \in PixIdx : luma_pixmap'[e] = 0]_vars

\* Writes per entry in one call: with decay 0 and increment 1 on a bitmap with
\* every bit set, each write of an entry adds 1 to it.
WriteCount ==
    update_lumamap([e \in PixIdx |-> 0], [p \in Pages |-> [c \in Columns |-> 255]], 0, 1)

\* Every entry is the entry of exactly one bit (p, c, k) of the bitmap.
EntryMapOneToOne ==
    \A e \in PixIdx :
        Cardinality({t \in Pages \X Columns \X (0 .. 7) :
                        EntryOf(8 * t[1] + t[3], t[2]) = e}) = 1

C14_RenderYieldsOnce ==
    [][~use_threads =>
          /\ FireScheduleRender => yield'
          /\ yield => runs' = runs
          /\ (yield /\ pc_sim = "check") => pc_sim' \in {"check", "host"}
          /\ (pc_sim = "host" /\ pc_sim' = "run") => ~yield'
          /\ runs' # runs => ~yield']_vars

\* C14 witness: schedule_render has fired, the loop has returned to GLUT, and
\* avr_run_loop has been called again and has run the core with the flag clear.
C14_Witness ==
    /\ ~use_threads
    /\ fired_at["schedule_render"] # NoTimer
    /\ cycle > fired_at["schedule_render"]
    /\ pc_sim = "timers" /\ ~yield

\* C16: in the cooperative build the level last raised on every button's line
\* is the negation of the button's stored pressed state, from main's pull-up
\* on; a notify_button_event call that delivers raises !pressed on the
\* button's own line, and no call changes another button's state or line.
C16_LineIsNotPressed ==
    /\ [](~use_threads => \A b \in Buttons : irq_level[b] = IF pressed[b] THEN 0 ELSE 1)
    /\ [][~use_threads =>
             \A b \in KeysUsed, p \in BOOLEAN :
                 Notify(b, p) =>
                     /\ \A o \in Buttons \ {b} :
                           pressed'[o] = pressed[o] /\ irq_level'[o] = irq_level[o]
                     /\ raised' # raised =>
                           raised' = Append(raised, <<b, IF p THEN 0 ELSE 1>>)]_vars

\* C16 witness: 'z' is held down while the up arrow has been pressed and
\* released.
C16_Witness ==
    /\ ~use_threads
    /\ raised = <<<<BTN_A, 0>>, <<BTN_UP, 0>>, <<BTN_UP, 1>>>>
    /\ pressed[BTN_A] /\ ~pressed[BTN_UP]
    /\ irq_level[BTN_A] = 0 /\ irq_level[BTN_UP] = 1

\* The avr_raise_irq calls made so far, followed by the calls the queued
\* datagrams are due: the line and the level !pressed of each, in send order.
Pipeline ==
    raised \o [k \in 1 .. Len(chan) |-> <<chan[k].irq, IF chan[k].pressed THEN 0 ELSE 1>>]

\* C17: in the threaded build a recv of the drain loop takes the oldest queued
\* event and raises its line with !pressed, once; the drain loop is left only
\* with the channel empty, every event accepted before then raised in send
\* order; and a send only adds an event behind those already accepted.
C17_DrainsAllInOrder ==
    [][use_threads =>
          /\ DrainRecv => (Pipeline' = Pipeline /\ Len(raised') = Len(raised) + 1)
          /\ (pc_sim = "drain" /\ pc_sim' # "drain") =>
                (chan = <<>> /\ chan' = <<>> /\ raised' = Pipeline)
          /\ pc_sim = "drain" => pc_sim' \in {"drain", "run", "exited"}
          /\ chan' # chan =>
                \/ Pipeline' = Pipeline
                \/ \E b \in Buttons, l \in {0, 1} : Pipeline' = Append(Pipeline, <<b, l>>)]_vars

\* C17 witness: one drain pass has raised a press and a release that were
\* queued, in that order, and left the channel empty.
C17_Witness ==
    /\ use_threads
    /\ drain.done /\ drain.delivered = 2
    /\ raised = <<<<BTN_A, 0>>, <<BTN_A, 1>>>>
    /\ chan = <<>> /\ pc_in = "idle"

\* The simulation context is inside avr->run.
InAvrRun == pc_sim \in {"timers", "sleep", "slept"}

\* C18: avr_raise_irq is called only by the context that runs the simulation
\* and never while avr->run executes: in the cooperative build by
\* notify_button_event between two avr_run_loop calls, in the threaded build
\* by the drain loop, notify_button_event only writing to the channel.
C18_RaiseOnlyInSimContext ==
    [][/\ raised' # raised =>
             /\ ~InAvrRun
             /\ IF use_threads
                THEN pc_sim = "drain" /\ pc_in' = pc_in /\ pressed' = pressed
                ELSE pc_sim = "host" /\ pc_sim' = "host"
       /\ \A b \in KeysUsed, p \in BOOLEAN :
             (use_threads /\ Notify(b, p)) =>
                 (raised' = raised /\ irq_level' = irq_level /\ simVars' = simVars)]_vars

\* C18 witness: in the threaded build an event was sent while avr->run was
\* executing; it is queued and nothing has been raised.
C18_Witness ==
    /\ use_threads
    /\ InAvrRun
    /\ runs = 1 /\ drain = NoDrain
    /\ Len(chan) = 1 /\ raised = <<>>

(***************************************************************************)
(* Claims about the render cadence.                                        *)
(***************************************************************************)
\* C20: the render period in cycles is exactly 12 times the persistence-update
\* period in cycles, and in the threaded build timerCB re-arms the GLUT timer
\* with the render period (GL_FRAME_PERIOD_US, in whole ms).
C20_RenderCadence ==
    /\ RenderPeriod = 12 * LumaPeriod
    /\ (use_threads /\ timer_fires > 0) =>
          /\ glut_timer_ms * 1000 <= GL_FRAME_PERIOD_US
          /\ GL_FRAME_PERIOD_US < (glut_timer_ms + 1) * 1000

=============================================================================
